---- MODULE Spec2Model ----
(***************************************************************************)
(* Credential core of Chirpy (internal/auth/auth.go): MakeJWT and          *)
(* ValidateJWT over golang-jwt/v5 RegisteredClaims, HashPassword and       *)
(* CheckPasswordHash over alexedwards/argon2id.                            *)
(*                                                                         *)
(* Time is counted in ticks, TicksPerSecond ticks to the second, so that   *)
(* the truncation of NumericDate to whole seconds is visible.  A string    *)
(* claim that is absent is the empty string, as in the Go struct; a time   *)
(* claim that is absent (a nil *NumericDate) is NoTime.                    *)
(***************************************************************************)
EXTENDS Integers, Sequences, FiniteSets, TLC

(* ------------------------------ bounds -------------------------------- *)

\* last instant of the clock, in ticks
MaxTime == 7

\* longest lifetime handed to MakeJWT, in ticks
MaxLifetime == 3

\* user identifiers are 0..MaxUser; 0 is uuid.Nil
MaxUser == 1

\* the salts crypto/rand can draw are 1..MaxSalt
MaxSalt == 2

(* ----------------------------- constants ------------------------------ *)

\* jwt.TimePrecision is one second: ticks per second of the model's clock
TicksPerSecond == 2

\* the clock's first instant (a wall clock is far from the epoch)
StartTime == 4

\* block size of SHA-256, to which an HMAC key is zero-padded
BlockSize == 64

NoTime == -1

Issuer == "chirpy"

ValidMethods == {"HS256"}

\* the signing methods golang-jwt registers that the model presents
HMACMethods == {"HS256", "HS384"}

RegisteredMethods == HMACMethods \cup {"none"}

\* alg header values of presented tokens: "" is a header without alg,
\* "ZZ" is an algorithm no signing method is registered for
Algs == RegisteredMethods \cup {"", "ZZ"}

UUIDs == 0..MaxUser

NilUUID == 0

\* secrets are byte strings; byte 0 is NUL
Secrets == {<<1>>, <<1, 0>>, <<2>>}

Lifetimes == (0 - TicksPerSecond)..MaxLifetime

(* ------------------------------ uuid ---------------------------------- *)

\* textual forms uuid.Parse accepts besides the canonical one
UUIDForms == {"canonical", "urn"}

\* a subject written from the zero identifier instead of userID
UUIDStringOfNil(u) == <<"canonical", NilUUID>>

\* uuid.UUID.String(): the canonical lower-case 36-character form
UUIDString(u) == <<"canonical", u>>

EmptyString == <<"empty", 0>>

Garbage == <<"garbage", 0>>

Subjects == {EmptyString, Garbage} \cup (UUIDForms \X UUIDs)

\* uuid.Parse that takes any non-empty text for an identifier
UUIDParseLenient(s) ==
    IF s[1] # "empty"
    THEN [ok |-> TRUE, id |-> s[2]]
    ELSE [ok |-> FALSE, id |-> NilUUID]

\* uuid.Parse: [ok, id]
UUIDParse(s) ==
    IF s[1] \in UUIDForms
    THEN [ok |-> TRUE, id |-> s[2]]
    ELSE [ok |-> FALSE, id |-> NilUUID]

(* ------------------------------ errors -------------------------------- *)

\* an error is its outermost sentinel and the chain it wraps; errors.Is
\* matches any of them
NoErr == [cat |-> "nil", detail |-> <<>>]

NewError(cat, detail) == [cat |-> cat, detail |-> detail]

ErrorsIs(e, target) ==
    \/ e.cat = target
    \/ \E i \in 1..Len(e.detail) : e.detail[i] = target

(* ------------------------------ tokens -------------------------------- *)

\* a NumericDate that keeps the fraction of the second
NewNumericDateExact(t) == t

\* time.Time.Truncate(jwt.TimePrecision) of jwt.NewNumericDate
NewNumericDate(t) == t - (t % TicksPerSecond)

\* the []byte key as crypto/hmac uses it: a key shorter than the block is
\* zero-padded to BlockSize bytes.  The padded block is written without its
\* trailing zero bytes (the model's secrets are all shorter than a block).
RECURSIVE HMACKey(_)
HMACKey(secret) ==
    IF Len(secret) > 0 /\ Len(secret) <= BlockSize /\ secret[Len(secret)] = 0
    THEN HMACKey(SubSeq(secret, 1, Len(secret) - 1))
    ELSE secret

\* header.payload: what the signature is computed over
SigningString(alg, claims) == <<alg, claims>>

\* SigningMethodHMAC.Sign; SigningMethodNone signs with the empty string
Sign(alg, claims, secret) ==
    IF alg \in HMACMethods
    THEN <<"hmac", alg, HMACKey(secret), SigningString(alg, claims)>>
    ELSE <<"">>

Tampered == <<"tampered">>

Claims(iss, sub, iat, exp, nbf) ==
    [iss |-> iss, sub |-> sub, iat |-> iat, exp |-> exp, nbf |-> nbf]

Token(alg, claims, sig) ==
    [wf |-> TRUE, alg |-> alg, claims |-> claims, sig |-> sig]

\* a string that does not split into three decodable segments
Malformed ==
    [wf |-> FALSE, alg |-> "",
     claims |-> Claims("", EmptyString, NoTime, NoTime, NoTime),
     sig |-> Tampered]

NoToken ==
    [wf |-> FALSE, alg |-> "-",
     claims |-> Claims("", EmptyString, NoTime, NoTime, NoTime),
     sig |-> Tampered]

\* MakeJWT's token for (userID, tokenSecret, expiresIn) at instant t
MakeJWTToken(userID, tokenSecret, expiresIn, t) ==
    LET claims == Claims(Issuer, UUIDString(userID), NewNumericDate(t),
                         NewNumericDate(t + expiresIn), NoTime)
    IN  Token("HS256", claims, Sign("HS256", claims, tokenSecret))

(* ------------------------- jwt.ParseWithClaims ------------------------ *)

\* Parser.ParseUnverified: split and decode the segments, look the alg up
ParseUnverified(tok) ==
    IF ~tok.wf
    THEN NewError("ErrTokenMalformed",
                  <<"token contains an invalid number of segments">>)
    ELSE IF tok.alg = ""
    THEN NewError("ErrTokenUnverifiable",
                  <<"signing method (alg) is unspecified">>)
    ELSE IF tok.alg \notin RegisteredMethods
    THEN NewError("ErrTokenUnverifiable",
                  <<"signing method (alg) is unavailable">>)
    ELSE NoErr

\* a method check that lets every HMAC method through
CheckValidMethodsAnyHMAC(tok) ==
    IF tok.alg \in HMACMethods
    THEN NoErr
    ELSE NewError("ErrTokenSignatureInvalid", <<"signing method is invalid">>)

\* jwt.WithValidMethods: the alg must be in the listed set
CheckValidMethods(tok) ==
    IF tok.alg \in ValidMethods
    THEN NoErr
    ELSE NewError("ErrTokenSignatureInvalid", <<"signing method is invalid">>)

\* the keyFunc of ValidateJWT: only an HMAC method gets the key
KeyFunc(tok) ==
    IF tok.alg \in HMACMethods
    THEN NoErr
    ELSE NewError("ErrTokenUnverifiable",
                  <<"error while executing keyfunc", "unexpected signing method">>)

\* a verification that never compares the MAC
MethodVerifyUnchecked(tok, tokenSecret) == tok.alg \in HMACMethods

\* token.Method.Verify with []byte(tokenSecret): the MAC is recomputed
MethodVerify(tok, tokenSecret) ==
    IF tok.alg \in HMACMethods
    THEN tok.sig = Sign(tok.alg, tok.claims, tokenSecret)
    ELSE FALSE

VerifySignature(tok, tokenSecret) ==
    IF MethodVerify(tok, tokenSecret)
    THEN NoErr
    ELSE NewError("ErrTokenSignatureInvalid", <<"ErrSignatureInvalid">>)

\* an expiry check that still accepts at the instant of expiry
VerifyExpiresAtInclusive(claims, t) ==
    IF claims.exp = NoTime THEN <<>>
    ELSE IF t <= claims.exp THEN <<>> ELSE <<"ErrTokenExpired">>

\* Validator.verifyExpiresAt (exp is not required): now.Before(exp)
VerifyExpiresAt(claims, t) ==
    IF claims.exp = NoTime THEN <<>>
    ELSE IF t < claims.exp THEN <<>> ELSE <<"ErrTokenExpired">>

\* Validator.verifyNotBefore (nbf is not required): !now.Before(nbf)
VerifyNotBefore(claims, t) ==
    IF claims.nbf = NoTime THEN <<>>
    ELSE IF t >= claims.nbf THEN <<>> ELSE <<"ErrTokenNotValidYet">>

\* Validator.verifyIssuer with jwt.WithIssuer("chirpy"): iss is required
VerifyIssuer(claims) ==
    IF claims.iss = "" THEN <<"ErrTokenRequiredClaimMissing">>
    ELSE IF claims.iss = Issuer THEN <<>> ELSE <<"ErrTokenInvalidIssuer">>

\* Validator.Validate: every check runs, the errors are joined in this order
ValidateClaims(claims, t) ==
    LET errs == VerifyExpiresAt(claims, t) \o VerifyNotBefore(claims, t)
                \o VerifyIssuer(claims)
    IN  IF errs = <<>> THEN NoErr ELSE NewError("ErrTokenInvalidClaims", errs)

\* the first error of a sequence of steps, NoErr when none fails
FirstError(steps) ==
    IF \A i \in 1..Len(steps) : steps[i] = NoErr
    THEN NoErr
    ELSE steps[CHOOSE i \in 1..Len(steps) :
                 /\ steps[i] # NoErr
                 /\ \A j \in 1..(i - 1) : steps[j] = NoErr]

\* a parser that validates the claims before it verifies the signature
ParseWithClaimsClaimsFirst(tok, tokenSecret, t) ==
    FirstError(<<ParseUnverified(tok),
                 CheckValidMethods(tok),
                 KeyFunc(tok),
                 ValidateClaims(tok.claims, t),
                 VerifySignature(tok, tokenSecret)>>)

\* Parser.ParseWithClaims at instant t
ParseWithClaims(tok, tokenSecret, t) ==
    FirstError(<<ParseUnverified(tok),
                 CheckValidMethods(tok),
                 KeyFunc(tok),
                 VerifySignature(tok, tokenSecret),
                 ValidateClaims(tok.claims, t)>>)

\* a ValidateJWT that returns the parsed subject beside the parser's error
ValidateJWTLeaky(tokenString, tokenSecret, t) ==
    LET err == ParseWithClaims(tokenString, tokenSecret, t)
        parsed == UUIDParse(tokenString.claims.sub)
    IN  IF err # NoErr
        THEN [uid |-> parsed.id, err |-> err]
        ELSE IF ~parsed.ok
        THEN [uid |-> NilUUID,
              err |-> NewError("errors.New", <<"subject is not a valid UUID">>)]
        ELSE [uid |-> parsed.id, err |-> NoErr]

\* ValidateJWT after the parser returned no error: the subject of the
\* claims the parser filled in
ValidateJWTSubject(claims) ==
    IF claims.sub = EmptyString
    THEN [uid |-> NilUUID,
          err |-> NewError("errors.New", <<"subject claim missing">>)]
    ELSE IF ~UUIDParse(claims.sub).ok
    THEN [uid |-> NilUUID,
          err |-> NewError("errors.New", <<"subject is not a valid UUID">>)]
    ELSE [uid |-> UUIDParse(claims.sub).id, err |-> NoErr]

\* ValidateJWT at instant t: [uid, err]
ValidateJWT(tokenString, tokenSecret, t) ==
    LET err == ParseWithClaims(tokenString, tokenSecret, t)
        parsed == UUIDParse(tokenString.claims.sub)
    IN  IF err # NoErr
        THEN [uid |-> NilUUID, err |-> err]
        ELSE IF tokenString.claims.sub = EmptyString
        THEN [uid |-> NilUUID,
              err |-> NewError("errors.New", <<"subject claim missing">>)]
        ELSE IF ~parsed.ok
        THEN [uid |-> NilUUID,
              err |-> NewError("errors.New", <<"subject is not a valid UUID">>)]
        ELSE [uid |-> parsed.id, err |-> NoErr]

(* ------------------------------ argon2id ------------------------------ *)

Passwords == {"", "a", "b"}

\* the salts crypto/rand can draw
Salts == 1..MaxSalt

\* argon2id.DefaultParams
DefaultParams ==
    [memory |-> 65536, iterations |-> 1, parallelism |-> 2,
     saltLength |-> 16, keyLength |-> 32]

\* an encoded hash "$argon2id$v=19$m=..,t=..,p=..$salt$key": the number of
\* values strings.Split(hash, "$") gives, and each value.  params is
\* <<m, t, p>>, or <<>> when Sscanf cannot scan it; salt and key are
\* <<"b64", value>>, or <<"notb64">> when they do not decode.
EncodedHash(vals, variant, version, params, salt, key) ==
    [vals |-> vals, variant |-> variant, version |-> version,
     params |-> params, salt |-> salt, key |-> key]

\* the empty string: Split gives one value
EmptyHash == EncodedHash(1, "", 0, <<>>, <<"notb64">>, <<"notb64">>)

\* argon2.IDKey panics on a time or a parallelism below one
IDKeyPanics(time, threads) == time < 1 \/ threads < 1

\* a key derivation that leaves the password out
IDKeyNoPassword(password, salt, time, memory, threads, keyLen) ==
    [len |-> keyLen, bytes |-> <<"", salt, time, memory, threads>>]

\* argon2.IDKey: a key of keyLen bytes that every argument decides
IDKey(password, salt, time, memory, threads, keyLen) ==
    [len |-> keyLen, bytes |-> <<password, salt, time, memory, threads>>]

\* a CreateHash that salts every hash with the same bytes
CreateHashFixedSalt(password, params, salt) ==
    EncodedHash(6, "argon2id", 19,
                <<params.memory, params.iterations, params.parallelism>>,
                <<"b64", 1>>,
                <<"b64", IDKey(password, 1, params.iterations, params.memory,
                               params.parallelism, params.keyLength)>>)

\* argon2id.CreateHash with the salt crypto/rand drew
CreateHash(password, params, salt) ==
    EncodedHash(6, "argon2id", 19,
                <<params.memory, params.iterations, params.parallelism>>,
                <<"b64", salt>>,
                <<"b64", IDKey(password, salt, params.iterations, params.memory,
                               params.parallelism, params.keyLength)>>)

\* argon2id.DecodeHash: the error, NoErr when the hash decodes
DecodeHash(hash) ==
    IF hash.vals # 6 THEN NewError("ErrInvalidHash", <<>>)
    ELSE IF hash.variant # "argon2id" THEN NewError("ErrIncompatibleVariant", <<>>)
    ELSE IF hash.version # 19 THEN NewError("ErrIncompatibleVersion", <<>>)
    ELSE IF hash.params = <<>> THEN NewError("fmt.Sscanf", <<"input does not match format">>)
    ELSE IF hash.salt[1] # "b64" THEN NewError("base64.CorruptInputError", <<"salt">>)
    ELSE IF hash.key[1] # "b64" THEN NewError("base64.CorruptInputError", <<"key">>)
    ELSE NoErr

\* subtle.ConstantTimeEq of the lengths, then subtle.ConstantTimeCompare
KeysMatch(key, otherKey) == key.len = otherKey.len /\ key.bytes = otherKey.bytes

\* CheckPasswordHash over argon2id.ComparePasswordAndHash:
\* [match, err, panicked]
CheckPasswordHashResult(password, hash) ==
    LET err == DecodeHash(hash)
    IN  IF err # NoErr
        THEN [match |-> FALSE, err |-> err, panicked |-> FALSE]
        ELSE IF IDKeyPanics(hash.params[2], hash.params[3])
        THEN [match |-> FALSE, err |-> NoErr, panicked |-> TRUE]
        ELSE [match |-> KeysMatch(hash.key[2],
                                  IDKey(password, hash.salt[2], hash.params[2],
                                        hash.params[1], hash.params[3],
                                        hash.key[2].len)),
              err |-> NoErr, panicked |-> FALSE]

(* ------------------------------- state -------------------------------- *)

VARIABLES
    now,          \* the wall clock, in ticks
    tokenString,  \* the token in hand: MakeJWT's, or one presented from outside
    issued,       \* how MakeJWT made the token in hand, when it did
    result,       \* what the last ValidateJWT of the token in hand returned
    storedHash,   \* the hashed password in the users table
    hashed,       \* how HashPassword made the stored hash, when it did
    checked,      \* what the last CheckPasswordHash of the stored hash returned
    drawn,        \* the salts crypto/rand has handed out
    previousHash, \* the hash HashPassword returned the call before
    previous,     \* how HashPassword made the previous hash
    previousChecked, \* what the last CheckPasswordHash of the previous hash returned
    pc,           \* where each goroutine is in the call it runs
    call,         \* the call each goroutine runs: its arguments, what it read
    frame,        \* the local variables of the calls in flight
    ret           \* what each goroutine's finished call returned

tokenVars == <<now, tokenString, issued, result>>

hashVars == <<storedHash, hashed, checked, drawn,
              previousHash, previous, previousChecked>>

concVars == <<pc, call, frame, ret>>

vars == <<now, tokenString, issued, result, storedHash, hashed, checked,
          drawn, previousHash, previous, previousChecked,
          pc, call, frame, ret>>

NoHashed == [made |-> FALSE, password |-> "", salt |-> 0, err |-> NoErr]

NoChecked == [done |-> FALSE, password |-> "", match |-> FALSE,
              err |-> NoErr, panicked |-> FALSE]

NoIssue == [made |-> FALSE, userID |-> NilUUID, secret |-> <<>>,
            expiresIn |-> 0, at |-> NoTime]

NoResult == [done |-> FALSE, secret |-> <<>>, at |-> NoTime,
             uid |-> NilUUID, err |-> NoErr]

\* the goroutines that call into the package at once
Goroutines == {"g1", "g2"}

\* locals kept in one variable of the package, which every call shares
FrameShared(g) == "g1"

\* the frame of the call goroutine g runs: the locals of a call (claims,
\* now, tok, hash, check, err) are its own
Frame(g) == g

NoCall ==
    [op |-> "none", userID |-> NilUUID, secret |-> <<>>, expiresIn |-> 0,
     tok |-> NoToken, made |-> NoIssue, password |-> "", hash |-> EmptyHash,
     at |-> NoTime, salt |-> 0]

NoFrame ==
    [claims |-> Claims("", EmptyString, NoTime, NoTime, NoTime),
     err |-> NoErr, salt |-> 0, hash |-> EmptyHash]

NoReturn ==
    [tok |-> NoToken, uid |-> NilUUID, err |-> NoErr, hash |-> EmptyHash,
     match |-> FALSE, panicked |-> FALSE]

ConcInit ==
    /\ pc = [g \in Goroutines |-> "idle"]
    /\ call = [g \in Goroutines |-> NoCall]
    /\ frame = [g \in Goroutines |-> NoFrame]
    /\ ret = [g \in Goroutines |-> NoReturn]

\* claim times of tokens presented from outside: whole seconds of the clock
PresentedTimes ==
    {NoTime} \cup {t \in StartTime..MaxTime : t % TicksPerSecond = 0}

PresentedIssuers == {Issuer, "other", ""}

\* who signed a presented token: a secret, or nobody (a tampered signature)
Signers == Secrets \cup {<<>>}

PresentedToken(alg, iss, sub, exp, nbf, signer) ==
    LET claims == Claims(iss, sub, NoTime, exp, nbf)
    IN  Token(alg, claims,
              IF signer = <<>> THEN Tampered ELSE Sign(alg, claims, signer))

\* every token that can arrive from outside
PresentedTokens ==
    {Malformed} \cup
    {PresentedToken(alg, iss, sub, exp, nbf, signer) :
        alg \in Algs, iss \in PresentedIssuers, sub \in Subjects,
        exp \in PresentedTimes, nbf \in PresentedTimes, signer \in Signers}

\* the token in hand is one presented from outside, or none yet
Init ==
    /\ now = StartTime
    /\ tokenString \in PresentedTokens \cup {NoToken}
    /\ issued = NoIssue
    /\ result = NoResult
    /\ storedHash = EmptyHash
    /\ hashed = NoHashed
    /\ checked = NoChecked
    /\ drawn = {}
    /\ previousHash = EmptyHash
    /\ previous = NoHashed
    /\ previousChecked = NoChecked
    /\ ConcInit

\* the wall clock advances
Tick ==
    /\ now < MaxTime
    /\ now' = now + 1
    /\ UNCHANGED <<tokenString, issued, result>>
    /\ UNCHANGED hashVars
    /\ UNCHANGED concVars

\* a call of MakeJWT(userID, tokenSecret, expiresIn)
MakeJWT ==
    \E userID \in UUIDs, tokenSecret \in Secrets, expiresIn \in Lifetimes :
        /\ tokenString' = MakeJWTToken(userID, tokenSecret, expiresIn, now)
        /\ issued' = [made |-> TRUE, userID |-> userID, secret |-> tokenSecret,
                      expiresIn |-> expiresIn, at |-> now]
        /\ result' = NoResult
        /\ UNCHANGED now
        /\ UNCHANGED hashVars
        /\ UNCHANGED concVars

\* a call of ValidateJWT(tokenString, tokenSecret)
Validate ==
    /\ tokenString # NoToken
    /\ \E tokenSecret \in Secrets :
        LET r == ValidateJWT(tokenString, tokenSecret, now)
        IN  result' = [done |-> TRUE, secret |-> tokenSecret, at |-> now,
                       uid |-> r.uid, err |-> r.err]
    /\ UNCHANGED <<now, tokenString, issued>>
    /\ UNCHANGED hashVars
    /\ UNCHANGED concVars

Next == Tick \/ MakeJWT \/ Validate

Spec == Init /\ [][Next]_vars

(* ------------------------- the credential hasher ---------------------- *)

PresentedParams ==
    {<<65536, 1, 2>>, <<65536, 3, 1>>, <<65536, 0, 2>>, <<65536, 1, 0>>, <<>>}

\* the key of a hash that arrives from the users table: the key of
\* password "a" under the hash's own salt and parameters, another key of
\* the same length, a shorter key, or text that is not base64
PresentedKeys(params) ==
    {<<"b64", [len |-> 32, bytes |-> <<"other">>]>>,
     <<"b64", [len |-> 16, bytes |-> <<"other">>]>>,
     <<"notb64">>}
    \cup IF params # <<>> /\ ~IDKeyPanics(params[2], params[3])
         THEN {<<"b64", IDKey("a", 1, params[2], params[1], params[3], 32)>>}
         ELSE {}

PresentedHashes ==
    {EmptyHash} \cup
    UNION { {EncodedHash(vals, variant, version, params, salt, key) :
                key \in PresentedKeys(params)} :
            vals \in {5, 6}, variant \in {"argon2id", "argon2i"},
            version \in {16, 19}, params \in PresentedParams,
            salt \in {<<"b64", 1>>, <<"notb64">>} }

\* the stored hash is any string the users table may hold
HashInit ==
    /\ now = StartTime
    /\ tokenString = NoToken
    /\ issued = NoIssue
    /\ result = NoResult
    /\ storedHash \in PresentedHashes
    /\ hashed = NoHashed
    /\ checked = NoChecked
    /\ drawn = {}
    /\ previousHash = EmptyHash
    /\ previous = NoHashed
    /\ previousChecked = NoChecked
    /\ ConcInit

\* a call of HashPassword(password): crypto/rand draws the salt, or fails.
\* The generator is taken to be ideal: 16 random bytes it has handed out
\* once it does not hand out again.  The hash the call before returned, and
\* what is known of it, is kept beside the new one.
HashPassword ==
    /\ \E password \in Passwords :
        \/ \E salt \in Salts \ drawn :
            /\ storedHash' = CreateHash(password, DefaultParams, salt)
            /\ hashed' = [made |-> TRUE, password |-> password, salt |-> salt,
                          err |-> NoErr]
            /\ checked' = NoChecked
            /\ drawn' = drawn \cup {salt}
            /\ previousHash' = IF hashed.made THEN storedHash ELSE EmptyHash
            /\ previous' = IF hashed.made THEN hashed ELSE NoHashed
            /\ previousChecked' = IF hashed.made THEN checked ELSE NoChecked
        \/ /\ hashed' = [made |-> FALSE, password |-> password, salt |-> 0,
                         err |-> NewError("crypto/rand", <<>>)]
           /\ UNCHANGED <<storedHash, checked, drawn,
                          previousHash, previous, previousChecked>>
    /\ UNCHANGED tokenVars
    /\ UNCHANGED concVars

\* a call of CheckPasswordHash(password, storedHash)
CheckPasswordHash ==
    /\ \E password \in Passwords :
        LET r == CheckPasswordHashResult(password, storedHash)
        IN  checked' = [done |-> TRUE, password |-> password, match |-> r.match,
                        err |-> r.err, panicked |-> r.panicked]
    /\ UNCHANGED <<storedHash, hashed, drawn,
                   previousHash, previous, previousChecked>>
    /\ UNCHANGED tokenVars
    /\ UNCHANGED concVars

HashNext == HashPassword \/ CheckPasswordHash

HashSpec == HashInit /\ [][HashNext]_vars

(* ------------------------- concurrent callers ------------------------- *)

\* what the concurrent callers pass: one user, one signing secret and a
\* wrong one to validate with, a short and a long lifetime, one password to hash
ConcUsers == {MaxUser}

ConcSecrets == {<<1>>, <<2>>}

ConcLifetimes == {1, MaxLifetime}

ConcPasswords == {"a", "b"}

\* tokens that reach ValidateJWT from outside while other calls run
ConcTokens ==
    {Malformed,
     PresentedToken("HS256", Issuer, Garbage, NoTime, NoTime, <<1>>),
     PresentedToken("none", Issuer, UUIDString(1), NoTime, NoTime, <<>>)}

\* stored hashes that reach CheckPasswordHash while other calls run
ConcHashes ==
    {EmptyHash,
     EncodedHash(6, "argon2id", 19, <<65536, 0, 2>>, <<"b64", 1>>,
                 <<"b64", [len |-> 32, bytes |-> <<"other">>]>>)}

Free(g) == pc[g] \in {"idle", "done"}

\* goroutine g enters a call: its frame is new, nothing is returned yet
Enter(g, c, f, at) ==
    /\ pc' = [pc EXCEPT ![g] = at]
    /\ call' = [call EXCEPT ![g] = c]
    /\ frame' = [frame EXCEPT ![Frame(g)] = f]
    /\ ret' = [ret EXCEPT ![g] = NoReturn]

\* goroutine g returns r: its frame is gone
Return(g, r) ==
    /\ pc' = [pc EXCEPT ![g] = "done"]
    /\ frame' = [frame EXCEPT ![Frame(g)] = NoFrame]
    /\ ret' = [ret EXCEPT ![g] = r]
    /\ UNCHANGED call

\* MakeJWT up to the claims: the clock is read, the claims are built
MakeJWTBegin ==
    /\ \E g \in Goroutines, userID \in ConcUsers, tokenSecret \in {<<1>>},
            expiresIn \in ConcLifetimes :
        /\ Free(g)
        /\ Enter(g,
                 [NoCall EXCEPT !.op = "MakeJWT", !.userID = userID,
                                !.secret = tokenSecret,
                                !.expiresIn = expiresIn, !.at = now],
                 [NoFrame EXCEPT !.claims =
                     Claims(Issuer, UUIDString(userID), NewNumericDate(now),
                            NewNumericDate(now + expiresIn), NoTime)],
                 "MakeJWT.sign")
    /\ UNCHANGED tokenVars
    /\ UNCHANGED hashVars

\* MakeJWT from jwt.NewWithClaims on: the claims are signed and returned
MakeJWTEnd ==
    /\ \E g \in Goroutines :
        /\ pc[g] = "MakeJWT.sign"
        /\ Return(g, [NoReturn EXCEPT !.tok =
                        Token("HS256", frame[Frame(g)].claims,
                              Sign("HS256", frame[Frame(g)].claims,
                                   call[g].secret))])
    /\ UNCHANGED tokenVars
    /\ UNCHANGED hashVars

\* ValidateJWT up to the return of jwt.ParseWithClaims: the token is one a
\* finished MakeJWT returned, or one from outside; the parser fills the
\* call's claims and reads the clock
ValidateJWTBegin ==
    /\ \E g \in Goroutines, tokenSecret \in ConcSecrets :
        /\ Free(g)
        /\ \E given \in
                {[tok |-> ret[h].tok,
                  made |-> [made |-> TRUE, userID |-> call[h].userID,
                            secret |-> call[h].secret,
                            expiresIn |-> call[h].expiresIn,
                            at |-> call[h].at]] :
                    h \in {h \in Goroutines :
                              pc[h] = "done" /\ call[h].op = "MakeJWT"}}
                \cup {[tok |-> t, made |-> NoIssue] : t \in ConcTokens} :
            Enter(g,
                  [NoCall EXCEPT !.op = "ValidateJWT", !.tok = given.tok,
                                 !.made = given.made,
                                 !.secret = tokenSecret, !.at = now],
                  [NoFrame EXCEPT !.claims = given.tok.claims,
                                  !.err = ParseWithClaims(given.tok,
                                                          tokenSecret, now)],
                  "ValidateJWT.subject")
    /\ UNCHANGED tokenVars
    /\ UNCHANGED hashVars

\* ValidateJWT after jwt.ParseWithClaims: the error, or the subject of the
\* call's claims
ValidateJWTEnd ==
    /\ \E g \in Goroutines :
        /\ pc[g] = "ValidateJWT.subject"
        /\ LET f == frame[Frame(g)]
               r == IF f.err # NoErr
                    THEN [uid |-> NilUUID, err |-> f.err]
                    ELSE ValidateJWTSubject(f.claims)
           IN  Return(g, [NoReturn EXCEPT !.uid = r.uid, !.err = r.err])
    /\ UNCHANGED tokenVars
    /\ UNCHANGED hashVars

\* HashPassword up to the salt: crypto/rand draws it, or fails and the call
\* returns the error
HashPasswordBegin ==
    /\ \E g \in Goroutines, password \in {"a"} :
        /\ Free(g)
        /\ \/ \E salt \in Salts \ drawn :
                /\ Enter(g,
                         [NoCall EXCEPT !.op = "HashPassword",
                                        !.password = password, !.salt = salt],
                         [NoFrame EXCEPT !.salt = salt],
                         "HashPassword.encode")
                /\ drawn' = drawn \cup {salt}
           \/ /\ pc' = [pc EXCEPT ![g] = "done"]
              /\ call' = [call EXCEPT ![g] =
                            [NoCall EXCEPT !.op = "HashPassword",
                                           !.password = password]]
              /\ ret' = [ret EXCEPT ![g] =
                            [NoReturn EXCEPT !.err = NewError("crypto/rand", <<>>)]]
              /\ UNCHANGED <<frame, drawn>>
    /\ UNCHANGED tokenVars
    /\ UNCHANGED <<storedHash, hashed, checked,
                   previousHash, previous, previousChecked>>

\* HashPassword from the key derivation on: the hash is encoded and returned
HashPasswordEnd ==
    /\ \E g \in Goroutines :
        /\ pc[g] = "HashPassword.encode"
        /\ Return(g, [NoReturn EXCEPT !.hash =
                        CreateHash(call[g].password, DefaultParams,
                                   frame[Frame(g)].salt)])
    /\ UNCHANGED tokenVars
    /\ UNCHANGED hashVars

\* CheckPasswordHash up to the decoded hash: the hash is one a finished
\* HashPassword returned, or one from the users table
CheckPasswordHashBegin ==
    /\ \E g \in Goroutines, password \in ConcPasswords :
        /\ Free(g)
        /\ \E hash \in
                {ret[h].hash :
                    h \in {h \in Goroutines :
                              /\ pc[h] = "done"
                              /\ call[h].op = "HashPassword"
                              /\ ret[h].err = NoErr}}
                \cup ConcHashes :
            Enter(g,
                  [NoCall EXCEPT !.op = "CheckPasswordHash",
                                 !.password = password, !.hash = hash],
                  [NoFrame EXCEPT !.hash = hash, !.err = DecodeHash(hash)],
                  "CheckPasswordHash.compare")
    /\ UNCHANGED tokenVars
    /\ UNCHANGED hashVars

\* CheckPasswordHash from the key derivation on: the decoding error, or the
\* comparison of the keys
CheckPasswordHashEnd ==
    /\ \E g \in Goroutines :
        /\ pc[g] = "CheckPasswordHash.compare"
        /\ LET f == frame[Frame(g)]
               r == IF f.err # NoErr
                    THEN [match |-> FALSE, err |-> f.err, panicked |-> FALSE]
                    ELSE CheckPasswordHashResult(call[g].password, f.hash)
           IN  Return(g, [NoReturn EXCEPT !.match = r.match, !.err = r.err,
                                          !.panicked = r.panicked])
    /\ UNCHANGED tokenVars
    /\ UNCHANGED hashVars

ConcNext ==
    \/ Tick
    \/ MakeJWTBegin \/ MakeJWTEnd
    \/ ValidateJWTBegin \/ ValidateJWTEnd
    \/ HashPasswordBegin \/ HashPasswordEnd
    \/ CheckPasswordHashBegin \/ CheckPasswordHashEnd

\* no token in hand, no stored hash: only the goroutines' calls
ConcStart ==
    /\ now = StartTime
    /\ tokenString = NoToken
    /\ issued = NoIssue
    /\ result = NoResult
    /\ storedHash = EmptyHash
    /\ hashed = NoHashed
    /\ checked = NoChecked
    /\ drawn = {}
    /\ previousHash = EmptyHash
    /\ previous = NoHashed
    /\ previousChecked = NoChecked
    /\ ConcInit

ConcSpec == ConcStart /\ [][ConcNext]_vars

(* ----------------------- error kinds of the design -------------------- *)

TokenExpired(e) == ErrorsIs(e, "ErrTokenExpired")

BadSignature(e) == ErrorsIs(e, "ErrSignatureInvalid")

BadIssuer(e) ==
    ErrorsIs(e, "ErrTokenInvalidIssuer") \/ ErrorsIs(e, "ErrTokenRequiredClaimMissing")

NotValidYet(e) == ErrorsIs(e, "ErrTokenNotValidYet")

UnsupportedAlgorithm(e) ==
    \/ ErrorsIs(e, "signing method is invalid")
    \/ ErrorsIs(e, "signing method (alg) is unavailable")
    \/ ErrorsIs(e, "signing method (alg) is unspecified")
    \/ ErrorsIs(e, "unexpected signing method")

MissingOrInvalidSubject(e) ==
    /\ e.cat = "errors.New"
    /\ \/ ErrorsIs(e, "subject claim missing")
       \/ ErrorsIs(e, "subject is not a valid UUID")

(* the five conditions of a valid token, on the token in hand as the last
   ValidateJWT saw it *)
SignatureVerifies ==
    /\ tokenString.alg \in HMACMethods
    /\ tokenString.sig = Sign(tokenString.alg, tokenString.claims, result.secret)

AlgorithmMandated == tokenString.alg = "HS256"

IssuerMatches == tokenString.claims.iss = Issuer

ExpiryInFuture ==
    /\ tokenString.claims.exp # NoTime
    /\ tokenString.claims.exp > result.at

SubjectWellFormed ==
    /\ tokenString.claims.sub # EmptyString
    /\ tokenString.claims.sub[1] \in UUIDForms

NotBeforeReached ==
    \/ tokenString.claims.nbf = NoTime
    \/ tokenString.claims.nbf <= result.at

\* the last ValidateJWT validated a token MakeJWT made, with secret s
ValidatedIssued == result.done /\ issued.made

(* ------------------------------- claims ------------------------------- *)

\* C1: a token MakeJWT made with a positive lifetime, validated with the
\* same secret before the instant of its exp claim, yields exactly the user
\* identifier it was made for and no error.
C1_RoundTrip ==
    ( /\ ValidatedIssued
      /\ issued.expiresIn > 0
      /\ result.secret = issued.secret
      /\ result.at < tokenString.claims.exp )
    => (result.uid = issued.userID /\ result.err = NoErr)

C1_Witness ==
    /\ ValidatedIssued
    /\ issued.expiresIn > 0
    /\ issued.userID # NilUUID
    /\ result.secret = issued.secret
    /\ result.at > issued.at
    /\ result.at < tokenString.claims.exp
    /\ result.uid = issued.userID

\* C2: ValidateJWT succeeds if and only if the signature verifies under the
\* secret, the algorithm is HS256, the issuer is "chirpy", the expiry is
\* strictly later than the validation time, and the subject is a
\* well-formed UUID.
C2_ValidIff ==
    result.done =>
        ( (result.err = NoErr)
          <=> ( /\ SignatureVerifies
                /\ AlgorithmMandated
                /\ IssuerMatches
                /\ ExpiryInFuture
                /\ SubjectWellFormed ) )

\* C3: a token MakeJWT made with a zero or negative lifetime is made all
\* the same, and validating it with the same secret fails with an expiry
\* error that is no signature error.
C3_ExpiredOnIssue ==
    ( /\ ValidatedIssued
      /\ issued.expiresIn <= 0
      /\ result.secret = issued.secret )
    => ( /\ tokenString.wf
         /\ result.uid = NilUUID
         /\ TokenExpired(result.err)
         /\ ~BadSignature(result.err)
         /\ result.err.cat # "ErrTokenSignatureInvalid" )

C3_Witness ==
    /\ ValidatedIssued
    /\ issued.expiresIn = 0
    /\ issued.at % TicksPerSecond = 0
    /\ result.at = issued.at
    /\ result.secret = issued.secret
    /\ TokenExpired(result.err)

\* C4 as stated: validating a token MakeJWT made with any secret other than
\* the one it was made with fails with a signature error and no identifier.
C4_AnyOtherSecret ==
    ( /\ ValidatedIssued
      /\ result.secret # issued.secret )
    => ( /\ result.err # NoErr
         /\ result.uid = NilUUID
         /\ BadSignature(result.err) )

\* C4: validating a token MakeJWT made with a secret whose HMAC key (the
\* secret zero-padded to the block) differs from that of the secret it was
\* made with fails with a signature error and no identifier.
C4_OtherKey ==
    ( /\ ValidatedIssued
      /\ HMACKey(result.secret) # HMACKey(issued.secret) )
    => ( /\ result.err # NoErr
         /\ result.uid = NilUUID
         /\ BadSignature(result.err) )

C4_Witness ==
    /\ ValidatedIssued
    /\ issued.expiresIn > 0
    /\ result.at < tokenString.claims.exp
    /\ HMACKey(result.secret) # HMACKey(issued.secret)
    /\ BadSignature(result.err)

\* C5 as stated: a token correctly signed under HS256 with the validation
\* secret, with the fixed issuer and an expiry in the future, whose subject
\* is empty or no UUID, is rejected with a subject error and no identifier.
C5_BadSubject ==
    ( /\ result.done
      /\ SignatureVerifies /\ AlgorithmMandated /\ IssuerMatches
      /\ ExpiryInFuture
      /\ ~SubjectWellFormed )
    => ( /\ MissingOrInvalidSubject(result.err)
         /\ result.uid = NilUUID )

\* C5: the same, for a token whose not-before claim is absent or reached.
C5_BadSubjectOnceValid ==
    ( /\ result.done
      /\ SignatureVerifies /\ AlgorithmMandated /\ IssuerMatches
      /\ ExpiryInFuture /\ NotBeforeReached
      /\ ~SubjectWellFormed )
    => ( /\ MissingOrInvalidSubject(result.err)
         /\ result.uid = NilUUID )

C5_Witness ==
    /\ result.done
    /\ SignatureVerifies /\ AlgorithmMandated /\ IssuerMatches
    /\ ExpiryInFuture /\ NotBeforeReached
    /\ tokenString.claims.sub = Garbage
    /\ MissingOrInvalidSubject(result.err)

\* C6: a decodable token whose algorithm is not HS256 is rejected, whatever
\* its claims and whoever signed it, and the error names the algorithm (it
\* is not the error of a signature that fails to verify).
C6_AlgorithmRejected ==
    ( /\ result.done
      /\ tokenString.wf
      /\ ~AlgorithmMandated )
    => ( /\ result.err # NoErr
         /\ result.uid = NilUUID
         /\ UnsupportedAlgorithm(result.err)
         /\ ~BadSignature(result.err) )

C6_Witness ==
    /\ result.done
    /\ tokenString.alg = "HS384"
    /\ SignatureVerifies /\ IssuerMatches /\ ExpiryInFuture
    /\ NotBeforeReached /\ SubjectWellFormed
    /\ UnsupportedAlgorithm(result.err)

\* C7 as stated: the checks run in the order algorithm, signature, issuer,
\* expiry, subject, and the error is that of the earliest violated check
\* alone.
C7_FixedOrder ==
    ( result.done /\ tokenString.wf ) =>
        IF ~AlgorithmMandated
        THEN UnsupportedAlgorithm(result.err) /\ ~BadSignature(result.err)
        ELSE IF ~SignatureVerifies
        THEN BadSignature(result.err) /\ ~BadIssuer(result.err)
             /\ ~TokenExpired(result.err)
        ELSE IF ~IssuerMatches
        THEN BadIssuer(result.err) /\ ~TokenExpired(result.err)
        ELSE IF tokenString.claims.exp # NoTime /\ ~ExpiryInFuture
        THEN TokenExpired(result.err) /\ ~MissingOrInvalidSubject(result.err)
        ELSE TRUE

\* C7: the checks run in the order algorithm, signature, registered claims,
\* subject.  The error is that of the earliest violated stage; the claims
\* stage checks expiry (when present), not-before and issuer together and
\* reports every one of them that is violated, expiry first.
C7_StageOrder ==
    ( result.done /\ tokenString.wf ) =>
        IF ~AlgorithmMandated
        THEN /\ UnsupportedAlgorithm(result.err)
             /\ ~BadSignature(result.err)
             /\ result.err.cat # "ErrTokenInvalidClaims"
        ELSE IF ~SignatureVerifies
        THEN /\ BadSignature(result.err)
             /\ result.err.cat = "ErrTokenSignatureInvalid"
             /\ ~BadIssuer(result.err) /\ ~TokenExpired(result.err)
             /\ ~NotValidYet(result.err)
        ELSE IF \/ ~IssuerMatches
                \/ ~NotBeforeReached
                \/ (tokenString.claims.exp # NoTime /\ ~ExpiryInFuture)
        THEN /\ result.err.cat = "ErrTokenInvalidClaims"
             /\ BadIssuer(result.err) <=> ~IssuerMatches
             /\ NotValidYet(result.err) <=> ~NotBeforeReached
             /\ TokenExpired(result.err)
                    <=> (tokenString.claims.exp # NoTime /\ ~ExpiryInFuture)
             /\ TokenExpired(result.err) => result.err.detail[1] = "ErrTokenExpired"
             /\ ~MissingOrInvalidSubject(result.err)
        ELSE IF ~SubjectWellFormed
        THEN MissingOrInvalidSubject(result.err)
        ELSE result.err = NoErr

C7_Witness ==
    /\ result.done
    /\ AlgorithmMandated /\ SignatureVerifies
    /\ tokenString.claims.iss = "other"
    /\ tokenString.claims.exp # NoTime /\ ~ExpiryInFuture
    /\ ~SubjectWellFormed
    /\ BadIssuer(result.err) /\ TokenExpired(result.err)

\* C8: whenever ValidateJWT returns an error the identifier it returns is
\* the nil UUID, and every token that is malformed, has another algorithm,
\* a signature that does not verify, another issuer, a past expiry or a
\* subject that is empty or no UUID gets an error.
C8_NilOnFailure ==
    result.done =>
        /\ (result.err # NoErr => result.uid = NilUUID)
        /\ ( ( \/ ~tokenString.wf
               \/ ~AlgorithmMandated
               \/ ~SignatureVerifies
               \/ ~IssuerMatches
               \/ (tokenString.claims.exp # NoTime /\ ~ExpiryInFuture)
               \/ ~SubjectWellFormed )
             => (result.err # NoErr /\ result.uid = NilUUID) )

C8_Witness ==
    /\ result.done
    /\ AlgorithmMandated /\ SignatureVerifies /\ IssuerMatches
    /\ tokenString.claims.exp # NoTime /\ ~ExpiryInFuture
    /\ SubjectWellFormed
    /\ UUIDParse(tokenString.claims.sub).id # NilUUID
    /\ result.err # NoErr
    /\ result.uid = NilUUID

\* the stored hash was made by HashPassword and then checked
CheckedOwnHash == checked.done /\ hashed.made

\* a stored hash that is wrongly encoded or carries a parameter set Argon2
\* does not support
MalformedHash(hash) ==
    \/ hash.vals # 6
    \/ hash.variant # "argon2id"
    \/ hash.version # 19
    \/ hash.params = <<>>
    \/ hash.salt[1] # "b64"
    \/ hash.key[1] # "b64"
    \/ hash.params[2] < 1
    \/ hash.params[3] < 1

\* C9: for non-empty plaintexts p and q and a hash HashPassword made of q,
\* CheckPasswordHash(p, hash) returns no error, and true exactly when p = q.
C9_VerifyIffSame ==
    ( /\ CheckedOwnHash
      /\ hashed.password # ""
      /\ checked.password # "" )
    => ( /\ checked.err = NoErr
         /\ ~checked.panicked
         /\ checked.match <=> (checked.password = hashed.password) )

C9_Witness ==
    /\ CheckedOwnHash
    /\ hashed.password = "b"
    /\ checked.password = "a"
    /\ ~checked.match
    /\ checked.err = NoErr

\* C10: CheckPasswordHash of a malformed stored hash returns an error, and
\* of a well-formed hash that does not match the plaintext returns false and
\* no error; a malformed hash never passes for a mismatch or a match.
C10_MalformedIsError ==
    checked.done =>
        IF MalformedHash(storedHash)
        THEN checked.err # NoErr /\ ~checked.match /\ ~checked.panicked
        ELSE checked.err = NoErr /\ ~checked.panicked

\* HashPassword made both the stored hash and the one before it, of the
\* same plaintext, and each was checked against that plaintext
CheckedBothHashes ==
    /\ hashed.made /\ previous.made
    /\ hashed.password = previous.password
    /\ checked.done /\ checked.password = hashed.password
    /\ previousChecked.done /\ previousChecked.password = previous.password

\* C11: two calls of HashPassword on the same plaintext return two different
\* hash strings, each with a salt of its own, and both verify against the
\* plaintext.
C11_FreshSalt ==
    /\ ( hashed.made /\ previous.made /\ hashed.password = previous.password )
       => ( /\ storedHash # previousHash
            /\ storedHash.salt # previousHash.salt )
    /\ CheckedBothHashes
       => ( /\ checked.match /\ checked.err = NoErr /\ ~checked.panicked
            /\ previousChecked.match /\ previousChecked.err = NoErr
            /\ ~previousChecked.panicked )

C11_Witness ==
    /\ CheckedBothHashes
    /\ hashed.password = "a"
    /\ storedHash # previousHash
    /\ checked.match /\ previousChecked.match

\* what the call c returns when it runs alone, from its arguments, the
\* instant it read the clock and the salt it drew
Alone(c) ==
    IF c.op = "MakeJWT"
    THEN [NoReturn EXCEPT !.tok =
            MakeJWTToken(c.userID, c.secret, c.expiresIn, c.at)]
    ELSE IF c.op = "ValidateJWT"
    THEN [NoReturn EXCEPT !.uid = ValidateJWT(c.tok, c.secret, c.at).uid,
                          !.err = ValidateJWT(c.tok, c.secret, c.at).err]
    ELSE IF c.op = "HashPassword"
    THEN IF c.salt \in Salts
         THEN [NoReturn EXCEPT !.hash =
                  CreateHash(c.password, DefaultParams, c.salt)]
         ELSE [NoReturn EXCEPT !.err = NewError("crypto/rand", <<>>)]
    ELSE [NoReturn EXCEPT
            !.match = CheckPasswordHashResult(c.password, c.hash).match,
            !.err = CheckPasswordHashResult(c.password, c.hash).err,
            !.panicked = CheckPasswordHashResult(c.password, c.hash).panicked]

\* C12: whatever other calls run at the same time, ran before or run after,
\* every finished call returned what it returns alone; the result of
\* ValidateJWT is decided by its token, its secret and the instant it read
\* the clock.
C12_CallsIndependent ==
    \A g \in Goroutines : pc[g] = "done" => ret[g] = Alone(call[g])

\* g1 finished a validation that began while g2's validation of another
\* token was in flight, which it still is
C12_Witness ==
    /\ pc["g1"] = "done" /\ call["g1"].op = "ValidateJWT"
    /\ ret["g1"].err = NoErr /\ ret["g1"].uid # NilUUID
    /\ pc["g2"] = "ValidateJWT.subject"
    /\ call["g2"].tok.claims.sub = Garbage
    /\ call["g2"].at < call["g1"].at

\* goroutine g finished validating, with the issuing secret, a token that
\* MakeJWT made
ValidatedOwn(g) ==
    /\ pc[g] = "done"
    /\ call[g].op = "ValidateJWT"
    /\ call[g].made.made
    /\ call[g].secret = call[g].made.secret

Accepted(g) == ret[g].err = NoErr /\ ret[g].uid = call[g].made.userID

\* the instant t0 + L at which the token goroutine g validated runs out
RunsOut(g) == call[g].made.at + call[g].made.expiresIn

\* the last whole second at or before instant t
WholeSecond(t) == t - (t % TicksPerSecond)

\* C13 as stated: a token made at t0 with lifetime L is accepted under the
\* issuing secret at every instant before t0 + L and rejected for expiry at
\* every instant from t0 + L on, whatever other calls run; once rejected for
\* expiry it is not accepted at any later instant.
C13_ExpiresAtLifetime ==
    /\ \A g \in Goroutines :
        ValidatedOwn(g) =>
            IF call[g].at < RunsOut(g)
            THEN Accepted(g)
            ELSE TokenExpired(ret[g].err) /\ ret[g].uid = NilUUID
    /\ \A g, h \in Goroutines :
        ( /\ ValidatedOwn(g) /\ ValidatedOwn(h)
          /\ call[g].tok = call[h].tok
          /\ TokenExpired(ret[g].err)
          /\ call[h].at >= call[g].at )
        => TokenExpired(ret[h].err)

\* C13: the same, with the token running out at t0 + L cut to the whole
\* second (the instant of its exp claim).
C13_ExpiresAtWholeSecond ==
    /\ \A g \in Goroutines :
        ValidatedOwn(g) =>
            IF call[g].at < WholeSecond(RunsOut(g))
            THEN Accepted(g)
            ELSE TokenExpired(ret[g].err) /\ ret[g].uid = NilUUID
    /\ \A g, h \in Goroutines :
        ( /\ ValidatedOwn(g) /\ ValidatedOwn(h)
          /\ call[g].tok = call[h].tok
          /\ TokenExpired(ret[g].err)
          /\ call[h].at >= call[g].at )
        => TokenExpired(ret[h].err)

\* one token, accepted by g2 and later, still before t0 + L, rejected for
\* expiry by g1
C13_Witness ==
    /\ ValidatedOwn("g1") /\ ValidatedOwn("g2")
    /\ call["g1"].tok = call["g2"].tok
    /\ call["g1"].made = call["g2"].made
    /\ call["g2"].at < call["g1"].at
    /\ Accepted("g2")
    /\ TokenExpired(ret["g1"].err)
    /\ call["g1"].at >= WholeSecond(RunsOut("g1"))

====
